---- MODULE Spec2Model ----
(***************************************************************************)
(* Model of the TAX WIZZ conversion pipeline (TAX_WIZZ/app.py):            *)
(*   num, read_excel_data, validate_excel_structure,                       *)
(*   generate_standard_output, generate_compact_output, log_activity,      *)
(*   update_user_status and the request handlers login, logout, convert    *)
(*   and custom_convert.                                                   *)
(*                                                                         *)
(* Python floats are modelled as exact rationals n/d plus the two special  *)
(* values float() can produce from text, nan and +-inf.  Strings are       *)
(* sequences of one-character strings.                                     *)
(***************************************************************************)
EXTENDS Integers, Sequences, FiniteSets, TLC

VARIABLES
    \* ---- position of the call under study: "call" before it, "return" after
    step,
    \* ---- num() applied to one raw cell value
    value, numResult,
    \* ---- read_excel_data() applied to one sheet and one range
    sheet, start_row, end_row, data,
    \* ---- generate_*_output() applied to two record sequences
    intraday, long_term, fmt, now, output_data, raised,
    \* ---- the web application: shared registries, the user directories and,
    \* ---- per browser, its session cookie and its request in flight
    CONVERSION_TEMPLATES, USER_SESSIONS, STATUS_UPDATES, user_dir,
    session, pc, req, response, issued,
    \* ---- history: per user, the entries handed to log_activity and to
    \* ---- update_user_status, in the order of the calls
    appended

numVars   == <<value, numResult>>
readVars  == <<sheet, start_row, end_row, data>>
buildVars == <<intraday, long_term, fmt, now, output_data, raised>>
appVars   == <<CONVERSION_TEMPLATES, USER_SESSIONS, STATUS_UPDATES, user_dir,
               session, pc, req, response, issued>>
vars == <<step, value, numResult, sheet, start_row, end_row, data,
          intraday, long_term, fmt, now, output_data, raised,
          CONVERSION_TEMPLATES, USER_SESSIONS, STATUS_UPDATES, user_dir,
          session, pc, req, response, issued, appended>>

\* value of a variable that the specification at hand does not use
Idle == "idle"

(***************************************************************************)
(* Bounds                                                                  *)
(***************************************************************************)
MaxStrLen == 3
MaxRows == 3
MaxTrades == 2
MaxClock == 1
MaxRequests == 4
MaxCalls == 123

(***************************************************************************)
(* Python float values                                                     *)
(***************************************************************************)
Abs(x) == IF x < 0 THEN -x ELSE x

RECURSIVE GCD(_, _)
GCD(a, b) == IF b = 0 THEN a ELSE GCD(b, a % b)

\* the finite float n/d (d # 0), in lowest terms with a positive denominator
Fin(n, d) ==
    LET g == GCD(Abs(n), Abs(d))
        s == IF d < 0 THEN -1 ELSE 1
    IN  [k |-> "fin", n |-> (s * n) \div g, d |-> Abs(d) \div g]

Zero == Fin(0, 1)
NaN == [k |-> "nan", n |-> 0, d |-> 1]
Inf(s) == [k |-> "inf", n |-> s, d |-> 1]

\* exceptions a float operation raises, carried as a value of the same shape
ValueError == [k |-> "ValueError", n |-> 0, d |-> 1]
ZeroDivisionError == [k |-> "ZeroDivisionError", n |-> 0, d |-> 1]

IsZero(x) == x.k = "fin" /\ x.n = 0

\* bool(x) of a float: every value but 0.0 is true (nan and inf included)
Truthy(x) == ~IsZero(x)

Sign(x) == IF x.n < 0 THEN -1 ELSE 1

\* a + b on floats
FAdd(a, b) ==
    IF a.k = "nan" \/ b.k = "nan" THEN NaN
    ELSE IF a.k = "inf" /\ b.k = "inf" THEN (IF a.n = b.n THEN a ELSE NaN)
    ELSE IF a.k = "inf" THEN a
    ELSE IF b.k = "inf" THEN b
    ELSE Fin(a.n * b.d + b.n * a.d, a.d * b.d)

\* a / b on floats: a zero divisor raises, whatever the dividend
PyDiv(a, b) ==
    IF IsZero(b) THEN ZeroDivisionError
    ELSE IF a.k = "nan" \/ b.k = "nan" THEN NaN
    ELSE IF a.k = "inf" /\ b.k = "inf" THEN NaN
    ELSE IF a.k = "inf" THEN Inf(a.n * Sign(b))
    ELSE IF b.k = "inf" THEN Zero
    ELSE Fin(a.n * b.d, a.d * b.n)

(***************************************************************************)
(* Python strings                                                          *)
(***************************************************************************)
Digits == {"0", "1", "2", "3", "4", "5", "6", "7", "8", "9"}

DigitVal(c) ==
    CASE c = "0" -> 0 [] c = "1" -> 1 [] c = "2" -> 2 [] c = "3" -> 3
      [] c = "4" -> 4 [] c = "5" -> 5 [] c = "6" -> 6 [] c = "7" -> 7
      [] c = "8" -> 8 [] c = "9" -> 9

IsSpace(c) == c = " "

\* s.replace(",", "")
RemoveCommas(s) == SelectSeq(s, LAMBDA c : c # ",")

RECURSIVE LStrip(_)
LStrip(s) == IF s # <<>> /\ IsSpace(Head(s)) THEN LStrip(Tail(s)) ELSE s

RECURSIVE RStrip(_)
RStrip(s) ==
    IF s # <<>> /\ IsSpace(s[Len(s)]) THEN RStrip(SubSeq(s, 1, Len(s) - 1)) ELSE s

\* s.strip()
Strip(s) == RStrip(LStrip(s))

RECURSIVE Pow10(_)
Pow10(e) == IF e = 0 THEN 1 ELSE 10 * Pow10(e - 1)

RECURSIVE DigitsVal(_)
DigitsVal(s) ==
    IF s = <<>> THEN 0 ELSE 10 * DigitsVal(SubSeq(s, 1, Len(s) - 1)) + DigitVal(s[Len(s)])

\* float(s) for a string s without surrounding whitespace, over the characters
\* digits . - + and letters: [sign] (nan | inf | infinity | digits[.digits] | .digits)
ParseFloat(s) ==
    LET signed == s # <<>> /\ Head(s) \in {"-", "+"}
        sgn == IF s # <<>> /\ Head(s) = "-" THEN -1 ELSE 1
        body == IF signed THEN Tail(s) ELSE s
        dots == {i \in 1..Len(body) : body[i] = "."}
        dot == IF dots = {} THEN Len(body) + 1 ELSE CHOOSE i \in dots : TRUE
        ip == SubSeq(body, 1, dot - 1)
        fp == SubSeq(body, dot + 1, Len(body))
    IN  IF body = <<"n", "a", "n">> THEN NaN
        ELSE IF body = <<"i", "n", "f">> \/ body = <<"i", "n", "f", "i", "n", "i", "t", "y">>
             THEN Inf(sgn)
        ELSE IF /\ \A i \in 1..Len(body) : body[i] \in Digits \cup {"."}
                /\ Cardinality(dots) <= 1
                /\ Len(ip) + Len(fp) >= 1
             THEN Fin(sgn * (DigitsVal(ip) * Pow10(Len(fp)) + DigitsVal(fp)), Pow10(Len(fp)))
        ELSE ValueError

(***************************************************************************)
(* Raw cell values as the workbook reader hands them over                  *)
(***************************************************************************)
NoneCell == [t |-> "none", s |-> <<>>, v |-> Zero]
StrCell(s) == [t |-> "str", s |-> s, v |-> Zero]
NumCell(v) == [t |-> "num", s |-> <<>>, v |-> v]
BoolCell(b) == [t |-> "bool", s |-> <<>>, v |-> IF b THEN Fin(1, 1) ELSE Zero]
\* a date, time or other object float() rejects with TypeError
OtherCell == [t |-> "other", s |-> <<>>, v |-> Zero]

(***************************************************************************)
(* num                                                                     *)
(***************************************************************************)
num(val) ==
    CASE val.t = "none" -> Zero
      [] val.t = "str" ->
            LET cleaned == Strip(RemoveCommas(val.s))
                f == IF cleaned # <<>> THEN ParseFloat(cleaned) ELSE Zero
            IN  IF f.k = "ValueError" THEN Zero ELSE f
      [] val.t = "num" -> val.v
      [] val.t = "bool" -> val.v
      [] val.t = "other" -> Zero

(***************************************************************************)
(* Sheets: a sequence of rows, each row the raw values of columns 1..5     *)
(***************************************************************************)
max_row(sh) == Len(sh)

\* a reader that answers a row beyond the sheet with the sheet's last row
cell_clamped(sh, row, column) ==
    IF Len(sh) = 0 THEN NoneCell
    ELSE sh[IF row > Len(sh) THEN Len(sh) ELSE row][column]

\* sheet.cell(row=row, column=column).value; a cell outside the sheet is empty
cell(sh, row, column) == IF row \in 1..Len(sh) THEN sh[row][column] ELSE NoneCell

\* bool(x) of a raw cell value
PyTruthy(val) ==
    CASE val.t = "none" -> FALSE
      [] val.t = "str" -> val.s # <<>>
      [] val.t = "num" -> Truthy(val.v)
      [] val.t = "bool" -> Truthy(val.v)
      [] val.t = "other" -> TRUE

RECURSIVE NatToStr(_)
NatToStr(n) ==
    LET d == CHOOSE c \in Digits : DigitVal(c) = n % 10
    IN  IF n < 10 THEN <<d>> ELSE Append(NatToStr(n \div 10), d)

RECURSIVE FracToStr(_, _)
FracToStr(r, d) ==
    IF r = 0 THEN <<>>
    ELSE <<CHOOSE c \in Digits : DigitVal(c) = (10 * r) \div d>> \o FracToStr((10 * r) % d, d)

\* str(x) of a raw cell value (an integral number is an int, printed without ".0")
PyStr(val) ==
    CASE val.t = "none" -> <<"N", "o", "n", "e">>
      [] val.t = "str" -> val.s
      [] val.t = "num" ->
            (IF val.v.n < 0 THEN <<"-">> ELSE <<>>)
            \o NatToStr(Abs(val.v.n) \div val.v.d)
            \o (IF val.v.d = 1 THEN <<>> ELSE <<".">> \o FracToStr(Abs(val.v.n) % val.v.d, val.v.d))
      [] val.t = "bool" -> IF Truthy(val.v) THEN <<"T", "r", "u", "e">>
                                          ELSE <<"F", "a", "l", "s", "e">>
      [] val.t = "other" -> <<"o", "b", "j">>

(***************************************************************************)
(* read_excel_data                                                         *)
(***************************************************************************)
TradeRecord(sh, row) ==
    [Symbol |-> Strip(PyStr(cell(sh, row, 1))),
     Quantity |-> num(cell(sh, row, 2)),
     BuyValue |-> num(cell(sh, row, 3)),
     SellValue |-> num(cell(sh, row, 4)),
     RealizedPnL |-> num(cell(sh, row, 5))]

RECURSIVE read_excel_data(_, _, _)
read_excel_data(sh, first, last) ==
    IF first > last THEN <<>>
    ELSE LET symbol == cell(sh, first, 1)
         IN  (IF PyTruthy(symbol) /\ Strip(PyStr(symbol)) # <<>>
              THEN <<TradeRecord(sh, first)>> ELSE <<>>)
             \o read_excel_data(sh, first + 1, last)

validate_excel_structure(sh) == ~(max_row(sh) < 2)

(***************************************************************************)
(* generate_standard_output                                                *)
(***************************************************************************)
\* sum(...) over a sequence of floats: a left fold from 0
RECURSIVE PySum(_)
PySum(xs) ==
    IF xs = <<>> THEN Zero ELSE FAdd(PySum(SubSeq(xs, 1, Len(xs) - 1)), xs[Len(xs)])

Field(trades, name) == [i \in 1..Len(trades) |-> trades[i][name]]

\* the same division without the `if qty` guard
per_unit_unguarded(v, qty) == PyDiv(v, qty)

\* trade[...] / qty if qty else 0
per_unit(v, qty) == IF Truthy(qty) THEN PyDiv(v, qty) ELSE Zero

\* enumerate(long_term) left at its default start of 0
asset_detail_from0(srn, trade) ==
    [srn |-> srn - 1,
     gainType |-> "LONG",
     sellDate |-> "2025-03-31T18:30:00Z",
     purchaseDate |-> "2024-04-01T18:30:00Z",
     sellValue |-> trade.SellValue,
     purchaseCost |-> trade.BuyValue,
     sellValuePerUnit |-> per_unit(trade.SellValue, trade.Quantity),
     purchaseValuePerUnit |-> per_unit(trade.BuyValue, trade.Quantity),
     sellOrBuyQuantity |-> trade.Quantity,
     nameOfTheUnits |-> trade.Symbol,
     capitalGain |-> trade.RealizedPnL,
     algorithm |-> "cgSharesMF",
     brokerName |-> "Manual"]

\* one assetDetails entry, for the srn-th trade of long_term
asset_detail(srn, trade) ==
    [srn |-> srn,
     gainType |-> "LONG",
     sellDate |-> "2025-03-31T18:30:00Z",
     purchaseDate |-> "2024-04-01T18:30:00Z",
     sellValue |-> trade.SellValue,
     purchaseCost |-> trade.BuyValue,
     sellValuePerUnit |-> per_unit(trade.SellValue, trade.Quantity),
     purchaseValuePerUnit |-> per_unit(trade.BuyValue, trade.Quantity),
     sellOrBuyQuantity |-> trade.Quantity,
     nameOfTheUnits |-> trade.Symbol,
     capitalGain |-> trade.RealizedPnL,
     algorithm |-> "cgSharesMF",
     brokerName |-> "Manual"]

capital_gain_group(lt) ==
    [assessmentYear |-> "2025-2026",
     assesseeType |-> "INDIVIDUAL",
     assetType |-> "EQUITY_SHARES_LISTED",
     assetDetails |-> [i \in 1..Len(lt) |-> asset_detail(i, lt[i])]]

\* the group appended without the `if long_term` test
capital_gain_always(lt) == <<capital_gain_group(lt)>>

capital_gain(lt) == IF lt # <<>> THEN <<capital_gain_group(lt)>> ELSE <<>>

\* total_turnover summed over the wrong column
profit_loss_buy_turnover(intra) ==
    IF intra # <<>>
    THEN <<[businessType |-> "SPECULATIVEINCOME",
            netProfitfromSpeculativeIncome |-> PySum(Field(intra, "RealizedPnL")),
            incomes |-> <<[turnOver |-> PySum(Field(intra, "BuyValue")),
                           grossProfit |-> PySum(Field(intra, "RealizedPnL")),
                           brokerName |-> "Manual"]>>]>>
    ELSE <<>>

profit_loss(intra) ==
    IF intra # <<>>
    THEN LET total_pnl == PySum(Field(intra, "RealizedPnL"))
             total_turnover == PySum(Field(intra, "SellValue"))
         IN  <<[businessType |-> "SPECULATIVEINCOME",
                netProfitfromSpeculativeIncome |-> total_pnl,
                incomes |-> <<[turnOver |-> total_turnover,
                               grossProfit |-> total_pnl,
                               brokerName |-> "Manual"]>>]>>
    ELSE <<>>

\* the exception the loop over long_term raises, "none" when it raises none
standard_raises(lt) ==
    IF \E i \in 1..Len(lt) :
          \/ per_unit(lt[i].SellValue, lt[i].Quantity).k = "ZeroDivisionError"
          \/ per_unit(lt[i].BuyValue, lt[i].Quantity).k = "ZeroDivisionError"
    THEN "ZeroDivisionError" ELSE "none"

\* the metadata block with a stale version tag
standard_metadata_v1 ==
    [generated_at |-> now, version |-> "1.0", format |-> "standard"]

standard_metadata ==
    [generated_at |-> now, version |-> "2.0", format |-> "standard"]

generate_standard_output(intra, lt) ==
    [capitalGain |-> capital_gain(lt),
     profitLossACIncomes |-> profit_loss(intra),
     metadata |-> standard_metadata]

(***************************************************************************)
(* generate_compact_output                                                 *)
(***************************************************************************)
\* total_longterm_pnl summed over the intraday trades
generate_compact_output_swapped(intra, lt) ==
    [summary |-> [intraday_trades |-> Len(intra),
                  long_term_trades |-> Len(lt),
                  total_intraday_pnl |-> PySum(Field(intra, "RealizedPnL")),
                  total_longterm_pnl |-> PySum(Field(intra, "RealizedPnL")),
                  generated_at |-> now],
     trades |-> [intraday |-> intra, long_term |-> lt]]

generate_compact_output(intra, lt) ==
    [summary |-> [intraday_trades |-> Len(intra),
                  long_term_trades |-> Len(lt),
                  total_intraday_pnl |-> PySum(Field(intra, "RealizedPnL")),
                  total_longterm_pnl |-> PySum(Field(lt, "RealizedPnL")),
                  generated_at |-> now],
     trades |-> [intraday |-> intra, long_term |-> lt]]

(***************************************************************************)
(* Inputs                                                                  *)
(***************************************************************************)
Alphabet == {"0", "1", ".", ",", " ", "-", "a", "n", "i", "f"}

Strings(n) == UNION {[1..k -> Alphabet] : k \in 0..n}

SeqsUpTo(S, n) == UNION {[1..k -> S] : k \in 0..n}

RawValues ==
    {NoneCell, OtherCell, BoolCell(TRUE), BoolCell(FALSE)}
    \cup {NumCell(v) : v \in {Zero, Fin(42, 1), Fin(-3, 2)}}
    \cup {StrCell(s) : s \in Strings(MaxStrLen)}

Row(symbol, qty, buy, sell, pnl) == <<symbol, qty, buy, sell, pnl>>

N(i) == NumCell(Fin(i, 1))

SampleRows ==
    { Row(StrCell(<<"A">>), N(10), N(100), N(150), N(50)),
      Row(StrCell(<<" ", "B", " ">>), StrCell(<<"1", ",", "0">>), NoneCell,
          StrCell(<<"a">>), StrCell(<<"-", ".", "1">>)),
      Row(NoneCell, N(1), N(2), N(3), N(4)),
      Row(StrCell(<<>>), N(1), N(2), N(3), N(5)),
      Row(StrCell(<<" ">>), N(1), N(2), N(3), N(6)),
      Row(N(0), N(5), N(50), N(60), N(10)),
      Row(N(7), N(0), N(0), N(0), N(0)),
      Row(BoolCell(FALSE), N(2), N(2), N(2), N(0)) }

Sheets == SeqsUpTo(SampleRows, MaxRows)

T(symbol, qty, buy, sell, pnl) ==
    [Symbol |-> symbol, Quantity |-> qty, BuyValue |-> buy, SellValue |-> sell,
     RealizedPnL |-> pnl]

SampleTrades ==
    { T(<<"A">>, Fin(10, 1), Fin(100, 1), Fin(150, 1), Fin(50, 1)),
      T(<<"B">>, Zero, Fin(7, 1), Fin(9, 1), Fin(2, 1)),
      T(<<"C">>, Fin(3, 1), Fin(10, 1), Fin(4, 1), Fin(-6, 1)),
      T(<<"D">>, Fin(1, 2), Fin(5, 1), Fin(5, 1), Zero),
      T(<<"E">>, NaN, Fin(1, 1), Inf(1), Inf(-1)) }

TradeSeqs == SeqsUpTo(SampleTrades, MaxTrades)

\* the web application is not running
AppIdle ==
    /\ CONVERSION_TEMPLATES = Idle /\ USER_SESSIONS = Idle /\ STATUS_UPDATES = Idle
    /\ user_dir = Idle /\ session = Idle /\ pc = Idle /\ req = Idle
    /\ response = Idle /\ issued = Idle /\ appended = Idle

(***************************************************************************)
(* Specification of num: one call on one raw cell value                    *)
(***************************************************************************)
InitNum ==
    /\ step = "call"
    /\ value \in RawValues
    /\ numResult = <<>>
    /\ sheet = Idle /\ start_row = Idle /\ end_row = Idle /\ data = Idle
    /\ intraday = Idle /\ long_term = Idle /\ fmt = Idle /\ now = Idle
    /\ output_data = Idle /\ raised = Idle
    /\ AppIdle

CallNum ==
    /\ step = "call"
    /\ step' = "return"
    /\ numResult' = <<num(value)>>
    /\ UNCHANGED <<value, readVars, buildVars, appVars, appended>>

NextNum == CallNum

SpecNum == InitNum /\ [][NextNum]_vars

(***************************************************************************)
(* Specification of read_excel_data: one call on one sheet and one range   *)
(***************************************************************************)
InitRead ==
    /\ step = "call"
    /\ sheet \in Sheets
    /\ start_row \in 1..(MaxRows + 1)
    /\ end_row \in 0..(MaxRows + 1)
    /\ data = <<>>
    /\ value = Idle /\ numResult = Idle
    /\ intraday = Idle /\ long_term = Idle /\ fmt = Idle /\ now = Idle
    /\ output_data = Idle /\ raised = Idle
    /\ AppIdle

CallRead ==
    /\ step = "call"
    /\ step' = "return"
    /\ data' = read_excel_data(sheet, start_row, end_row)
    /\ UNCHANGED <<sheet, start_row, end_row, numVars, buildVars, appVars, appended>>

NextRead == CallRead

SpecRead == InitRead /\ [][NextRead]_vars

(***************************************************************************)
(* Specification of the builder: one call on two record sequences          *)
(***************************************************************************)
InitBuild ==
    /\ step = "call"
    /\ intraday \in TradeSeqs
    /\ long_term \in TradeSeqs
    /\ fmt \in {"standard", "compact"}
    /\ now \in 0..MaxClock
    /\ output_data = <<>>
    /\ raised = "none"
    /\ value = Idle /\ numResult = Idle
    /\ sheet = Idle /\ start_row = Idle /\ end_row = Idle /\ data = Idle
    /\ AppIdle

BuildStandard ==
    /\ step = "call"
    /\ fmt # "compact"
    /\ step' = "return"
    /\ raised' = standard_raises(long_term)
    /\ output_data' = IF raised' = "none"
                      THEN generate_standard_output(intraday, long_term) ELSE <<>>
    /\ UNCHANGED <<intraday, long_term, fmt, now, numVars, readVars, appVars, appended>>

BuildCompact ==
    /\ step = "call"
    /\ fmt = "compact"
    /\ step' = "return"
    /\ raised' = "none"
    /\ output_data' = generate_compact_output(intraday, long_term)
    /\ UNCHANGED <<intraday, long_term, fmt, now, numVars, readVars, appVars, appended>>

NextBuild == BuildStandard \/ BuildCompact

SpecBuild == InitBuild /\ [][NextBuild]_vars

(***************************************************************************)
(* The web application                                                     *)
(***************************************************************************)
\* two browser sessions, each with its own cookie
Browsers == {"b1", "b2"}

Users == {"admin", "user"}

ALLOWED_EXTENSIONS == {"xlsx", "xls", "xlsm", "xlsb", "json"}

MaxActivities == 100
MaxStatusUpdates == 20

BuiltinTemplates ==
    [default |-> [intraday_start |-> 42, intraday_end |-> 42,
                  longterm_start |-> 55, longterm_end |-> 57,
                  output_format |-> "standard"],
     compact |-> [intraday_start |-> 42, intraday_end |-> 42,
                  longterm_start |-> 55, longterm_end |-> 57,
                  output_format |-> "compact"]]

\* a file name "stem.ext"; no dot when ext is empty
FileName(stem, ext) == [stem |-> stem, ext |-> ext]

allowed_file(filename) == filename.ext # "" /\ filename.ext \in ALLOWED_EXTENSIONS

\* f"{user_id}_{name}_{timestamp}.json", the timestamp read to the second
generate_output_filename(original_filename, user_id) ==
    <<user_id, original_filename.stem, now>>

\* xs[:n], the slice taken from the wrong end
KeepFirst(xs, n) == IF Len(xs) > n THEN SubSeq(xs, 1, n) ELSE xs

\* xs[-n:]
KeepLast(xs, n) == IF Len(xs) > n THEN SubSeq(xs, Len(xs) - n + 1, Len(xs)) ELSE xs

\* STATUS_UPDATES after update_user_status(user_id, status)
update_user_status(updates, user_id, status) ==
    [updates EXCEPT ![user_id] = KeepLast(Append(@, status), MaxStatusUpdates)]

\* an absent key of USER_SESSIONS, and the empty dict a lookup creates for it
NoSession ==
    [exists |-> FALSE, login_time |-> -1, status |-> "",
     has_activities |-> FALSE, activities |-> <<>>]

\* the dict login stores: login_time, ip_address, status, last_sync
FreshSession ==
    [exists |-> TRUE, login_time |-> now, status |-> "active",
     has_activities |-> FALSE, activities |-> <<>>]

\* d with d[key] = val
Put(d, key, val) == [k \in DOMAIN d \cup {key} |-> IF k = key THEN val ELSE d[k]]

\* the parameters applied to a copy: the shared template keeps its values
DictUpdate_copy(template, custom_params) == template

\* template.update(custom_params)
DictUpdate(template, custom_params) ==
    [k \in DOMAIN template \cup DOMAIN custom_params |->
        IF k \in DOMAIN custom_params THEN custom_params[k] ELSE template[k]]

NoResponse == [code |-> 0, success |-> FALSE, error |-> "", output_file |-> <<>>]

ErrorResponse(code, error) ==
    [code |-> code, success |-> FALSE, error |-> error, output_file |-> <<>>]

SuccessResponse(output_file) ==
    [code |-> 200, success |-> TRUE, error |-> "", output_file |-> output_file]

Redirect == [code |-> 302, success |-> FALSE, error |-> "", output_file |-> <<>>]

(***************************************************************************)
(* Uploads and request bodies                                              *)
(***************************************************************************)
BlankRow == Row(NoneCell, NoneCell, NoneCell, NoneCell, NoneCell)

\* one row only
OneRowSheet == <<Row(StrCell(<<"A">>), N(10), N(100), N(150), N(50))>>

\* 57 rows: an intraday trade in row 42, three long-term trades in rows 55..57
FullSheet ==
    [r \in 1..57 |->
        CASE r = 1 -> Row(StrCell(<<"S">>), StrCell(<<"Q">>), NoneCell, NoneCell, NoneCell)
          [] r = 42 -> Row(StrCell(<<"I">>), N(4), N(40), N(44), N(4))
          [] r = 55 -> Row(StrCell(<<"A">>), N(10), N(100), N(150), N(50))
          [] r = 56 -> Row(StrCell(<<"B">>), N(0), N(0), N(0), N(0))
          [] r = 57 -> Row(StrCell(<<"C">>), N(5), N(50), N(60), N(10))
          [] OTHER -> BlankRow]

Upload(present, filename, readable, sh) ==
    [present |-> present, filename |-> filename, readable |-> readable, sheet |-> sh]

NoUpload == Upload(FALSE, FileName("", ""), FALSE, <<>>)

Uploads ==
    { NoUpload,
      Upload(TRUE, FileName("", ""), FALSE, <<>>),
      Upload(TRUE, FileName("notes", "txt"), FALSE, <<>>),
      Upload(TRUE, FileName("old", "xls"), FALSE, <<>>),
      Upload(TRUE, FileName("one", "xlsx"), TRUE, OneRowSheet),
      Upload(TRUE, FileName("pnl", "xlsx"), TRUE, FullSheet) }

NoParams == <<>>

CustomParams ==
    { [intraday_start |-> 1, intraday_end |-> 1],
      [output_format |-> "compact"] }

\* a JSON body carries custom parameters and neither form fields nor files;
\* a multipart body carries the template name and the file and is not JSON
Body(template, custom_params, upload) ==
    [template |-> template, custom_params |-> custom_params, upload |-> upload]

Bodies ==
    {Body("default", p, NoUpload) : p \in CustomParams}
    \cup {Body("default", NoParams, u) : u \in Uploads \ {NoUpload}}
    \cup {Body(tn, NoParams, u) : tn \in {"compact", "weekly"},
                                  u \in {u \in Uploads : u.readable}}

\* the user names a browser logs in with: the users being interchangeable, the
\* first browser's user is called "admin"
LoginNames(b) == IF b = "b1" THEN {"admin"} ELSE Users

NoReq ==
    [kind |-> "", user_id |-> "", upload |-> NoUpload, template_name |-> "",
     template |-> "", loaded |-> FALSE, extracted |-> FALSE,
     intraday |-> <<>>, long_term |-> <<>>, output_data |-> <<>>,
     output_filename |-> <<>>, activity |-> "", ret |-> "", handler |-> ""]

(***************************************************************************)
(* Init: the state after the module is loaded                              *)
(***************************************************************************)
Init ==
    /\ CONVERSION_TEMPLATES = BuiltinTemplates
    /\ USER_SESSIONS = [u \in Users |-> NoSession]
    /\ STATUS_UPDATES = [u \in Users |-> <<>>]
    /\ user_dir = [u \in Users |-> <<>>]
    /\ session = [b \in Browsers |-> ""]
    /\ pc = [b \in Browsers |-> "idle"]
    /\ req = [b \in Browsers |-> NoReq]
    /\ response = [b \in Browsers |-> NoResponse]
    /\ issued = 0
    /\ now = 0
    /\ step = Idle /\ value = Idle /\ numResult = Idle
    /\ sheet = Idle /\ start_row = Idle /\ end_row = Idle /\ data = Idle
    /\ intraday = Idle /\ long_term = Idle /\ fmt = Idle
    /\ output_data = Idle /\ raised = Idle
    /\ appended = Idle

\* the variables no request handler touches
pureVars ==
    <<step, numVars, readVars, intraday, long_term, fmt, output_data, raised, appended>>

\* browser b may send a request
CanIssue(b) == pc[b] = "idle" /\ issued < MaxRequests

\* the clock moves on to the next second
Tick ==
    /\ now < MaxClock
    /\ now' = now + 1
    /\ UNCHANGED <<appVars, pureVars>>

(***************************************************************************)
(* log_activity, in two steps: the test-and-create of the list, the append *)
(***************************************************************************)
\* enter log_activity(user_id, activity) from handler position `ret`; an
\* exception inside it is handled at position `handler`
CallLogActivity(r, kind, user_id, activity, ret, handler) ==
    [r EXCEPT !.kind = kind, !.user_id = user_id, !.activity = activity,
              !.ret = ret, !.handler = handler]

\* if 'activities' not in USER_SESSIONS[user_id]: USER_SESSIONS[user_id]['activities'] = []
log_activity_check(b) ==
    /\ pc[b] = "la_check"
    /\ USER_SESSIONS' =
          [USER_SESSIONS EXCEPT ![req[b].user_id] =
              IF @.has_activities THEN @
              ELSE [@ EXCEPT !.exists = TRUE, !.has_activities = TRUE, !.activities = <<>>]]
    /\ pc' = [pc EXCEPT ![b] = "la_append"]
    /\ UNCHANGED <<CONVERSION_TEMPLATES, STATUS_UPDATES, user_dir, session, req,
                   response, issued, now, pureVars>>

\* an exception raised in browser b's request, where `handler` names the code
\* that handles it:
\*   "c_except"   convert's except clause, up to its call of
\*                log_activity(user_id, 'error_occurred', ...);
\*   "cc_except"  custom_convert's except clause: the 500 response;
\*   "unhandled"  no handler in the view: the framework answers 500, and the
\*                session cookie a login has set is stored or not, depending
\*                on debug mode.
Raise(b, handler) ==
    CASE handler = "c_except" ->
            /\ req' = [req EXCEPT ![b] =
                          CallLogActivity(@, @.kind, @.user_id, "error_occurred",
                                          "c_except_status", "unhandled")]
            /\ pc' = [pc EXCEPT ![b] = "la_check"]
            /\ UNCHANGED <<response, session>>
      [] handler = "cc_except" ->
            /\ response' = [response EXCEPT ![b] = ErrorResponse(500, "exception")]
            /\ pc' = [pc EXCEPT ![b] = "idle"]
            /\ UNCHANGED <<req, session>>
      [] handler = "unhandled" ->
            /\ response' = [response EXCEPT ![b] = ErrorResponse(500, "exception")]
            /\ pc' = [pc EXCEPT ![b] = "idle"]
            /\ UNCHANGED req
            /\ \/ UNCHANGED session
               \/ /\ req[b].kind = "login"
                  /\ session' = [session EXCEPT ![b] = ""]

\* USER_SESSIONS[user_id]['activities'].append(activity), then keep the last 100;
\* KeyError when the list is no longer there.  login returns its redirect
\* right after the call.
log_activity_append(b) ==
    /\ pc[b] = "la_append"
    /\ IF USER_SESSIONS[req[b].user_id].has_activities
       THEN /\ USER_SESSIONS' =
                  [USER_SESSIONS EXCEPT ![req[b].user_id].activities =
                      KeepLast(Append(@, req[b].activity), MaxActivities)]
            /\ IF req[b].ret = "login_done"
               THEN /\ response' = [response EXCEPT ![b] = Redirect]
                    /\ pc' = [pc EXCEPT ![b] = "idle"]
               ELSE /\ pc' = [pc EXCEPT ![b] = req[b].ret]
                    /\ UNCHANGED response
            /\ UNCHANGED <<req, session>>
       ELSE /\ USER_SESSIONS' = [USER_SESSIONS EXCEPT ![req[b].user_id].exists = TRUE]
            /\ Raise(b, req[b].handler)
    /\ UNCHANGED <<CONVERSION_TEMPLATES, STATUS_UPDATES, user_dir, issued, now, pureVars>>

(***************************************************************************)
(* login, logout                                                           *)
(***************************************************************************)
\* POST /login from a browser that is not logged in (one that is gets a
\* redirect and changes nothing); valid says whether the form's username and
\* password match USERS
login(b, username, valid) ==
    /\ CanIssue(b)
    /\ session[b] = ""
    /\ issued' = issued + 1
    /\ IF valid
       THEN /\ session' = [session EXCEPT ![b] = username]
            /\ USER_SESSIONS' = [USER_SESSIONS EXCEPT ![username] = FreshSession]
            /\ req' = [req EXCEPT ![b] =
                          CallLogActivity(NoReq, "login", username, "login",
                                          "login_done", "unhandled")]
            /\ response' = [response EXCEPT ![b] = NoResponse]
            /\ pc' = [pc EXCEPT ![b] = "la_check"]
       ELSE /\ req' = [req EXCEPT ![b] = [NoReq EXCEPT !.kind = "login"]]
            /\ response' = [response EXCEPT ![b] =
                               [NoResponse EXCEPT !.code = 200,
                                                  !.error = "Invalid username or password"]]
            /\ UNCHANGED <<session, USER_SESSIONS, pc>>
    /\ UNCHANGED <<CONVERSION_TEMPLATES, STATUS_UPDATES, user_dir, now, pureVars>>

\* GET /logout from a logged-in browser (login_required redirects any other)
logout(b) ==
    /\ CanIssue(b)
    /\ session[b] # ""
    /\ issued' = issued + 1
    /\ req' = [req EXCEPT ![b] =
                  CallLogActivity(NoReq, "logout", session[b], "logout",
                                  "logout_pop", "unhandled")]
    /\ response' = [response EXCEPT ![b] = NoResponse]
    /\ pc' = [pc EXCEPT ![b] = "la_check"]
    /\ UNCHANGED <<CONVERSION_TEMPLATES, USER_SESSIONS, STATUS_UPDATES, user_dir, session,
                   now, pureVars>>

\* USER_SESSIONS.pop(user_id, None); session.clear()
logout_pop(b) ==
    /\ pc[b] = "logout_pop"
    /\ USER_SESSIONS' = [USER_SESSIONS EXCEPT ![req[b].user_id] = NoSession]
    /\ session' = [session EXCEPT ![b] = ""]
    /\ response' = [response EXCEPT ![b] = Redirect]
    /\ pc' = [pc EXCEPT ![b] = "idle"]
    /\ UNCHANGED <<CONVERSION_TEMPLATES, STATUS_UPDATES, user_dir, req, issued, now,
                   pureVars>>

(***************************************************************************)
(* Writing the document into the user's directory                          *)
(***************************************************************************)
\* generate_output_filename(...); open(output_path, 'w')
write_open(b) ==
    /\ pc[b] \in {"c_open", "cc_open"}
    /\ LET output_filename == generate_output_filename(req[b].upload.filename, req[b].user_id)
       IN  /\ req' = [req EXCEPT ![b].output_filename = output_filename]
           /\ user_dir' = [user_dir EXCEPT ![req[b].user_id] =
                              Put(@, output_filename, [complete |-> FALSE, doc |-> <<>>])]
    /\ pc' = [pc EXCEPT ![b] = IF pc[b] = "c_open" THEN "c_dump" ELSE "cc_dump"]
    /\ UNCHANGED <<CONVERSION_TEMPLATES, USER_SESSIONS, STATUS_UPDATES, session, response,
                   issued, now, pureVars>>

\* json.dump(output_data, f, indent=2) and the close of the file, then the
\* call of log_activity(user_id, 'conversion_completed', ...)
write_dump(b) ==
    /\ pc[b] \in {"c_dump", "cc_dump"}
    /\ user_dir' = [user_dir EXCEPT ![req[b].user_id] =
                       Put(@, req[b].output_filename,
                           [complete |-> TRUE, doc |-> req[b].output_data])]
    /\ req' = [req EXCEPT ![b] =
                  IF pc[b] = "c_dump"
                  THEN CallLogActivity(@, @.kind, @.user_id, "conversion_completed",
                                       "c_done", "c_except")
                  ELSE CallLogActivity(@, @.kind, @.user_id, "conversion_completed",
                                       "cc_done", "cc_except")]
    /\ pc' = [pc EXCEPT ![b] = "la_check"]
    /\ UNCHANGED <<CONVERSION_TEMPLATES, USER_SESSIONS, STATUS_UPDATES, session, response,
                   issued, now, pureVars>>

(***************************************************************************)
(* convert                                                                 *)
(***************************************************************************)
\* POST /convert from a logged-in browser (login_required redirects any
\* other), up to the call of log_activity(user_id, 'file_uploaded', ...).
\* secure_filename leaves the plain names of Uploads as they are.
convert(b, upload) ==
    /\ CanIssue(b)
    /\ session[b] # ""
    /\ issued' = issued + 1
    /\ LET user_id == session[b]
           uploading == update_user_status(STATUS_UPDATES, user_id, "uploading")
           rejected(error) ==
               /\ STATUS_UPDATES' = uploading
               /\ req' = [req EXCEPT ![b] =
                             [NoReq EXCEPT !.kind = "convert", !.user_id = user_id,
                                           !.upload = upload]]
               /\ response' = [response EXCEPT ![b] = ErrorResponse(400, error)]
               /\ UNCHANGED pc
       IN  IF ~upload.present THEN rejected("No file uploaded")
           ELSE IF upload.filename = FileName("", "") THEN rejected("No file selected")
           ELSE IF ~allowed_file(upload.filename) THEN rejected("Invalid file type")
           ELSE /\ STATUS_UPDATES' = update_user_status(uploading, user_id, "processing")
                /\ req' = [req EXCEPT ![b] =
                              CallLogActivity([NoReq EXCEPT !.upload = upload],
                                              "convert", user_id, "file_uploaded",
                                              "c_process", "c_except")]
                /\ response' = [response EXCEPT ![b] = NoResponse]
                /\ pc' = [pc EXCEPT ![b] = "la_check"]
    /\ UNCHANGED <<CONVERSION_TEMPLATES, USER_SESSIONS, user_dir, session, now, pureVars>>

\* load_workbook, validate_excel_structure, read_excel_data twice and
\* generate_standard_output
convert_process(b) ==
    /\ pc[b] = "c_process"
    /\ LET user_id == req[b].user_id
           sh == req[b].upload.sheet
           extracting == update_user_status(STATUS_UPDATES, user_id, "processing")
           intra == read_excel_data(sh, 42, 42)
           lt == read_excel_data(sh, 55, 57)
       IN  IF ~req[b].upload.readable
           THEN \* load_workbook raises
                /\ Raise(b, "c_except")
                /\ UNCHANGED STATUS_UPDATES
           ELSE IF ~validate_excel_structure(sh)
           THEN /\ req' = [req EXCEPT ![b].loaded = TRUE]
                /\ response' = [response EXCEPT ![b] =
                                   ErrorResponse(400, "Excel file appears to be empty")]
                /\ pc' = [pc EXCEPT ![b] = "idle"]
                /\ UNCHANGED <<STATUS_UPDATES, session>>
           ELSE IF standard_raises(lt) # "none"
           THEN \* generate_standard_output raises
                /\ STATUS_UPDATES' = update_user_status(extracting, user_id, "processing")
                /\ Raise(b, "c_except")
           ELSE /\ req' = [req EXCEPT ![b].loaded = TRUE, ![b].extracted = TRUE,
                                      ![b].intraday = intra, ![b].long_term = lt,
                                      ![b].output_data = generate_standard_output(intra, lt)]
                /\ STATUS_UPDATES' = update_user_status(extracting, user_id, "processing")
                /\ pc' = [pc EXCEPT ![b] = "c_open"]
                /\ UNCHANGED <<response, session>>
    /\ UNCHANGED <<CONVERSION_TEMPLATES, USER_SESSIONS, user_dir, issued, now, pureVars>>

\* update_user_status(user_id, 'completed', ...) and the success response
convert_done(b) ==
    /\ pc[b] = "c_done"
    /\ STATUS_UPDATES' = update_user_status(STATUS_UPDATES, req[b].user_id, "completed")
    /\ response' = [response EXCEPT ![b] = SuccessResponse(req[b].output_filename)]
    /\ pc' = [pc EXCEPT ![b] = "idle"]
    /\ UNCHANGED <<CONVERSION_TEMPLATES, USER_SESSIONS, user_dir, session, req, issued,
                   now, pureVars>>

\* update_user_status(user_id, 'error', str(e)) and the 500 response
convert_except_status(b) ==
    /\ pc[b] = "c_except_status"
    /\ STATUS_UPDATES' = update_user_status(STATUS_UPDATES, req[b].user_id, "error")
    /\ response' = [response EXCEPT ![b] = ErrorResponse(500, "exception")]
    /\ pc' = [pc EXCEPT ![b] = "idle"]
    /\ UNCHANGED <<CONVERSION_TEMPLATES, USER_SESSIONS, user_dir, session, req, issued,
                   now, pureVars>>

(***************************************************************************)
(* custom_convert                                                          *)
(***************************************************************************)
\* POST /api/convert/custom from a logged-in browser (login_required redirects
\* any other), up to the file checks
custom_convert(b, body) ==
    /\ CanIssue(b)
    /\ session[b] # ""
    /\ issued' = issued + 1
    /\ LET user_id == session[b]
           template_name == body.template
           custom_params == body.custom_params
           \* CONVERSION_TEMPLATES.get(template_name, CONVERSION_TEMPLATES['default'])
           template == IF template_name \in DOMAIN CONVERSION_TEMPLATES
                       THEN template_name ELSE "default"
           upload == body.upload
           r == [NoReq EXCEPT !.kind = "custom_convert", !.user_id = user_id,
                              !.upload = upload, !.template_name = template_name,
                              !.template = template]
           rejected(error) ==
               /\ req' = [req EXCEPT ![b] = r]
               /\ response' = [response EXCEPT ![b] = ErrorResponse(400, error)]
               /\ UNCHANGED pc
       IN  /\ STATUS_UPDATES' = update_user_status(STATUS_UPDATES, user_id, "processing")
           /\ CONVERSION_TEMPLATES' =
                 IF custom_params # NoParams
                 THEN [CONVERSION_TEMPLATES EXCEPT ![template] = DictUpdate(@, custom_params)]
                 ELSE CONVERSION_TEMPLATES
           /\ IF ~upload.present THEN rejected("No file uploaded")
              ELSE IF upload.filename = FileName("", "") THEN rejected("No file selected")
              ELSE IF ~allowed_file(upload.filename) THEN rejected("Invalid file type")
              ELSE /\ req' = [req EXCEPT ![b] = r]
                   /\ response' = [response EXCEPT ![b] = NoResponse]
                   /\ pc' = [pc EXCEPT ![b] = "cc_process"]
    /\ UNCHANGED <<USER_SESSIONS, user_dir, session, now, pureVars>>

\* load_workbook, read_excel_data twice with the template's rows, and the
\* builder the template's output_format selects
custom_process(b) ==
    /\ pc[b] = "cc_process"
    /\ LET sh == req[b].upload.sheet
           template == CONVERSION_TEMPLATES[req[b].template]
           intra == read_excel_data(sh, template.intraday_start, template.intraday_end)
           lt == read_excel_data(sh, template.longterm_start, template.longterm_end)
       IN  IF ~req[b].upload.readable
           THEN \* load_workbook raises
                Raise(b, "cc_except")
           ELSE IF template.output_format # "compact" /\ standard_raises(lt) # "none"
           THEN \* generate_standard_output raises
                Raise(b, "cc_except")
           ELSE /\ req' = [req EXCEPT ![b].loaded = TRUE, ![b].extracted = TRUE,
                                      ![b].intraday = intra, ![b].long_term = lt,
                                      ![b].output_data =
                                          IF template.output_format = "compact"
                                          THEN generate_compact_output(intra, lt)
                                          ELSE generate_standard_output(intra, lt)]
                /\ pc' = [pc EXCEPT ![b] = "cc_open"]
                /\ UNCHANGED <<response, session>>
    /\ UNCHANGED <<CONVERSION_TEMPLATES, USER_SESSIONS, STATUS_UPDATES, user_dir, issued,
                   now, pureVars>>

\* update_user_status(user_id, 'completed', ...) and the success response
custom_done(b) ==
    /\ pc[b] = "cc_done"
    /\ STATUS_UPDATES' = update_user_status(STATUS_UPDATES, req[b].user_id, "completed")
    /\ response' = [response EXCEPT ![b] = SuccessResponse(req[b].output_filename)]
    /\ pc' = [pc EXCEPT ![b] = "idle"]
    /\ UNCHANGED <<CONVERSION_TEMPLATES, USER_SESSIONS, user_dir, session, req, issued,
                   now, pureVars>>

(***************************************************************************)
(* Specification of the application                                        *)
(***************************************************************************)
Next ==
    \/ Tick
    \/ \E b \in Browsers :
          \/ \E username \in LoginNames(b), valid \in BOOLEAN : login(b, username, valid)
          \/ logout(b)
          \/ logout_pop(b)
          \/ \E upload \in Uploads : convert(b, upload)
          \/ convert_process(b)
          \/ convert_done(b)
          \/ convert_except_status(b)
          \/ \E body \in Bodies : custom_convert(b, body)
          \/ custom_process(b)
          \/ custom_done(b)
          \/ write_open(b)
          \/ write_dump(b)
          \/ log_activity_check(b)
          \/ log_activity_append(b)

Spec == Init /\ [][Next]_vars

(***************************************************************************)
(* Specification of the template registry: the login and the              *)
(* custom_convert requests of one browser, one after the other             *)
(***************************************************************************)
NextTemplates ==
    \/ Tick
    \/ \E b \in {"b1"} :
          \/ \E username \in LoginNames(b), valid \in BOOLEAN : login(b, username, valid)
          \/ \E body \in Bodies : custom_convert(b, body)
          \/ custom_process(b)
          \/ custom_done(b)
          \/ write_open(b)
          \/ write_dump(b)
          \/ log_activity_check(b)
          \/ log_activity_append(b)

SpecTemplates == Init /\ [][NextTemplates]_vars

(***************************************************************************)
(* Specification of the two bounded lists: log_activity and                *)
(* update_user_status called one call after the other.  Each entry is      *)
(* identified by its place in the order of the calls.                      *)
(***************************************************************************)
InitTrim ==
    /\ CONVERSION_TEMPLATES = BuiltinTemplates
    /\ USER_SESSIONS = [u \in Users |-> NoSession]
    /\ STATUS_UPDATES = [u \in Users |-> <<>>]
    /\ user_dir = [u \in Users |-> <<>>]
    /\ session = [b \in Browsers |-> ""]
    /\ pc = [b \in Browsers |-> "idle"]
    /\ req = [b \in Browsers |-> NoReq]
    /\ response = [b \in Browsers |-> NoResponse]
    /\ issued = 0
    /\ now = 0
    /\ appended = [u \in Users |-> [activities |-> <<>>, statuses |-> <<>>]]
    /\ step = Idle /\ value = Idle /\ numResult = Idle
    /\ sheet = Idle /\ start_row = Idle /\ end_row = Idle /\ data = Idle
    /\ intraday = Idle /\ long_term = Idle /\ fmt = Idle
    /\ output_data = Idle /\ raised = Idle

\* a behaviour fills the lists of one user
OnlyUser(user_id) ==
    \A u \in Users \ {user_id} : appended[u] = [activities |-> <<>>, statuses |-> <<>>]

\* a call log_activity(user_id, ...), up to its test of the list
LogActivityCall(b, user_id) ==
    /\ pc[b] = "idle" /\ issued < MaxCalls
    /\ OnlyUser(user_id)
    /\ issued' = issued + 1
    /\ LET activity == Len(appended[user_id].activities) + 1
       IN  /\ req' = [req EXCEPT ![b] =
                         CallLogActivity(NoReq, "log_activity", user_id, activity,
                                         "idle", "unhandled")]
           /\ appended' = [appended EXCEPT ![user_id].activities = Append(@, activity)]
    /\ pc' = [pc EXCEPT ![b] = "la_check"]
    /\ UNCHANGED <<CONVERSION_TEMPLATES, USER_SESSIONS, STATUS_UPDATES, user_dir, session,
                   response, now, step, numVars, readVars, intraday, long_term, fmt,
                   output_data, raised>>

\* a call update_user_status(user_id, ...)
UpdateUserStatusCall(b, user_id) ==
    /\ pc[b] = "idle" /\ issued < MaxCalls
    /\ OnlyUser(user_id)
    /\ issued' = issued + 1
    /\ LET status == Len(appended[user_id].statuses) + 1
       IN  /\ STATUS_UPDATES' = update_user_status(STATUS_UPDATES, user_id, status)
           /\ appended' = [appended EXCEPT ![user_id].statuses = Append(@, status)]
    /\ UNCHANGED <<CONVERSION_TEMPLATES, USER_SESSIONS, user_dir, session, pc, req,
                   response, now, step, numVars, readVars, intraday, long_term, fmt,
                   output_data, raised>>

NextTrim ==
    \E b \in {"b1"} :
        \/ \E user_id \in Users : LogActivityCall(b, user_id)
        \/ \E user_id \in Users : UpdateUserStatusCall(b, user_id)
        \/ log_activity_check(b)
        \/ log_activity_append(b)

SpecTrim == InitTrim /\ [][NextTrim]_vars

(***************************************************************************)
(* Properties                                                              *)
(***************************************************************************)
Returned == step = "return"

\* C2 as stated: every document the builder produces, standard or compact,
\* carries a metadata block with the generation timestamp, the fixed version
\* tag and the name of the format used.
C2_EveryDocumentHasMetadata ==
    Returned =>
        /\ "metadata" \in DOMAIN output_data
        /\ output_data.metadata.generated_at = now
        /\ output_data.metadata.version = "2.0"
        /\ output_data.metadata.format = fmt

\* C2 amended: a standard document carries a metadata block with the
\* generation timestamp, the version tag "2.0" and the format name "standard";
\* a compact document has no metadata block, only the summary and trades
\* blocks, and its generation timestamp is summary.generated_at.
C2_MetadataOnStandardOnly ==
    Returned =>
        /\ fmt = "standard" =>
              /\ DOMAIN output_data = {"capitalGain", "profitLossACIncomes", "metadata"}
              /\ output_data.metadata =
                    [generated_at |-> now, version |-> "2.0", format |-> "standard"]
        /\ fmt = "compact" =>
              /\ DOMAIN output_data = {"summary", "trades"}
              /\ "version" \notin DOMAIN output_data.summary
              /\ "format" \notin DOMAIN output_data.summary
              /\ output_data.summary.generated_at = now

C2_Witness ==
    /\ Returned /\ fmt = "compact" /\ now = MaxClock
    /\ output_data.summary.generated_at = MaxClock
    /\ "metadata" \notin DOMAIN output_data

\* the asset details of the single capital-gain group of a standard document
AssetDetails == output_data.capitalGain[1].assetDetails

\* e is the float quotient s / q, q nonzero
IsQuotient(e, s, q) ==
    IF s.k = "fin" /\ q.k = "fin"
    THEN e.k = "fin" /\ e.n * q.n * s.d = s.n * q.d * e.d
    ELSE e = PyDiv(s, q)

\* C5: in the standard format no build raises a division by zero, and for
\* every long-term record sellValuePerUnit and purchaseValuePerUnit are 0 when
\* the quantity is 0 and sellValue/quantity, buyValue/quantity otherwise.
C5_PerUnitGuarded ==
    (Returned /\ fmt = "standard") =>
        /\ raised = "none"
        /\ \A i \in 1..Len(long_term) :
              LET e == AssetDetails[i]
                  q == long_term[i].Quantity
              IN  IF q = Zero
                  THEN e.sellValuePerUnit = Zero /\ e.purchaseValuePerUnit = Zero
                  ELSE /\ IsQuotient(e.sellValuePerUnit, long_term[i].SellValue, q)
                       /\ IsQuotient(e.purchaseValuePerUnit, long_term[i].BuyValue, q)

C5_Witness ==
    /\ Returned /\ fmt = "standard" /\ raised = "none" /\ Len(long_term) = 2
    /\ long_term[1].Quantity = Zero /\ long_term[1].SellValue # Zero
    /\ long_term[1].BuyValue # Zero
    /\ AssetDetails[1].sellValuePerUnit = Zero
    /\ AssetDetails[1].purchaseValuePerUnit = Zero
    /\ long_term[2].Quantity = Fin(10, 1)
    /\ AssetDetails[2].sellValuePerUnit = Fin(15, 1)
    /\ AssetDetails[2].purchaseValuePerUnit = Fin(10, 1)

\* C6: in the standard format a non-empty long-term sequence of n records
\* gives exactly one capital-gain group with exactly n asset details, the i-th
\* taken from the i-th record and numbered srn = i.
C6_OneEntryPerRecordInOrder ==
    (Returned /\ fmt = "standard" /\ long_term # <<>>) =>
        /\ Len(output_data.capitalGain) = 1
        /\ Len(AssetDetails) = Len(long_term)
        /\ \A i \in 1..Len(long_term) :
              /\ AssetDetails[i].srn = i
              /\ AssetDetails[i].nameOfTheUnits = long_term[i].Symbol
              /\ AssetDetails[i].sellOrBuyQuantity = long_term[i].Quantity
              /\ AssetDetails[i].purchaseCost = long_term[i].BuyValue
              /\ AssetDetails[i].sellValue = long_term[i].SellValue
              /\ AssetDetails[i].capitalGain = long_term[i].RealizedPnL

C6_Witness ==
    /\ Returned /\ fmt = "standard" /\ Len(long_term) = 2
    /\ long_term[1].Symbol = <<"C">> /\ long_term[2].Symbol = <<"A">>
    /\ [i \in 1..2 |-> AssetDetails[i].srn] = <<1, 2>>
    /\ [i \in 1..2 |-> AssetDetails[i].nameOfTheUnits] = <<<<"C">>, <<"A">>>>

\* C7: in the standard format capitalGain is empty exactly when the long-term
\* input is empty, profitLossACIncomes is empty exactly when the intraday
\* input is empty, and each section is what it would be with the other input
\* empty.
C7_SectionsEmptyIffInputEmpty ==
    (Returned /\ fmt = "standard") =>
        /\ (output_data.capitalGain = <<>>) <=> (long_term = <<>>)
        /\ (output_data.profitLossACIncomes = <<>>) <=> (intraday = <<>>)
        /\ output_data.capitalGain =
              generate_standard_output(<<>>, long_term).capitalGain
        /\ output_data.profitLossACIncomes =
              generate_standard_output(intraday, <<>>).profitLossACIncomes

C7_Witness ==
    /\ Returned /\ fmt = "standard"
    /\ long_term = <<>> /\ intraday # <<>>
    /\ output_data.capitalGain = <<>>
    /\ Len(output_data.profitLossACIncomes) = 1

\* the arithmetic sum of one field over a sequence of records
RECURSIVE SumOf(_, _)
SumOf(trades, name) ==
    IF trades = <<>> THEN Zero ELSE FAdd(Head(trades)[name], SumOf(Tail(trades), name))

\* C8: in the standard format a non-empty intraday sequence gives exactly one
\* speculative-income group with exactly one income line; the group's net
\* profit and the line's gross profit are the sum of realized P&L and the
\* line's turnover is the sum of sell value over the intraday records.
C8_SpeculativeIncomeTotals ==
    (Returned /\ fmt = "standard" /\ intraday # <<>>) =>
        /\ Len(output_data.profitLossACIncomes) = 1
        /\ LET g == output_data.profitLossACIncomes[1]
           IN  /\ g.businessType = "SPECULATIVEINCOME"
               /\ Len(g.incomes) = 1
               /\ g.netProfitfromSpeculativeIncome = SumOf(intraday, "RealizedPnL")
               /\ g.incomes[1].grossProfit = SumOf(intraday, "RealizedPnL")
               /\ g.incomes[1].turnOver = SumOf(intraday, "SellValue")

C8_Witness ==
    /\ Returned /\ fmt = "standard" /\ Len(intraday) = 2
    /\ intraday[1].Symbol = <<"A">> /\ intraday[2].Symbol = <<"C">>
    /\ output_data.profitLossACIncomes[1].netProfitfromSpeculativeIncome = Fin(44, 1)
    /\ output_data.profitLossACIncomes[1].incomes[1].turnOver = Fin(154, 1)

\* C9: in the compact format the summary counts are the lengths of the two
\* inputs, the totals are the sums of realized P&L over each input (0 for an
\* empty one) and trades holds the two inputs unchanged.
C9_CompactSummaryAndTrades ==
    (Returned /\ fmt = "compact") =>
        /\ output_data.summary.intraday_trades = Len(intraday)
        /\ output_data.summary.long_term_trades = Len(long_term)
        /\ output_data.summary.total_intraday_pnl = SumOf(intraday, "RealizedPnL")
        /\ output_data.summary.total_longterm_pnl = SumOf(long_term, "RealizedPnL")
        /\ intraday = <<>> => output_data.summary.total_intraday_pnl = Zero
        /\ long_term = <<>> => output_data.summary.total_longterm_pnl = Zero
        /\ output_data.trades.intraday = intraday
        /\ output_data.trades.long_term = long_term

C9_Witness ==
    /\ Returned /\ fmt = "compact"
    /\ intraday = <<>> /\ Len(long_term) = 2
    /\ output_data.summary.total_intraday_pnl = Zero
    /\ output_data.summary.total_longterm_pnl # Zero
    /\ output_data.trades.long_term = long_term

\* the rows of the requested range whose symbol cell is neither absent nor
\* blank once converted to a string and trimmed
SymbolPresent(sh, row) ==
    /\ cell(sh, row, 1).t # "none"
    /\ Strip(PyStr(cell(sh, row, 1))) # <<>>

RECURSIVE Ascending(_)
Ascending(S) ==
    IF S = {} THEN <<>>
    ELSE LET m == CHOOSE x \in S : \A y \in S : x <= y
         IN  <<m>> \o Ascending(S \ {m})

\* C3 as stated: read_excel_data skips a row exactly when its symbol cell is
\* absent or blank after trimming, emits one record for every other row of
\* the range and nothing for a skipped row, in ascending row order.
C3_SkipsExactlyBlankSymbols ==
    Returned =>
        LET kept == Ascending({r \in start_row..end_row : SymbolPresent(sheet, r)})
        IN  data = [i \in 1..Len(kept) |-> TradeRecord(sheet, kept[i])]

\* C4 as stated: num never raises and never returns null or NaN; it returns
\* 0.0 for an absent value, for a string that is empty after removing commas
\* and surrounding whitespace and for a value of any other type, and the
\* numeric value of a number.
C4_NumTotalNeverNaN ==
    Returned =>
        /\ Len(numResult) = 1
        /\ numResult[1].k \in {"fin", "inf"}
        /\ value.t \in {"none", "other"} => numResult[1] = Zero
        /\ (value.t = "str" /\ Strip(RemoveCommas(value.s)) = <<>>) => numResult[1] = Zero
        /\ value.t = "num" => numResult[1] = value.v

\* browser b's latest request is a conversion call
IsConversion(b) == req[b].kind \in {"convert", "custom_convert"}

\* C1 as stated: in convert and in custom_convert, once the workbook is loaded
\* and its sheet has fewer than 2 rows, read_excel_data is not called, no
\* document is built or written, and the call ends with the empty-sheet error.
C1_NoExtractionFromShortSheet ==
    \A b \in Browsers :
        (IsConversion(b) /\ req[b].loaded /\ max_row(req[b].upload.sheet) < 2) =>
            /\ ~req[b].extracted
            /\ DOMAIN req[b].output_data = {}
            /\ req[b].output_filename = <<>>
            /\ pc[b] = "idle" =>
                  response[b] = ErrorResponse(400, "Excel file appears to be empty")

\* C10 as stated: when a conversion call has ended with an error response, no
\* output file of that call exists in the user's directory; and every file
\* there holds a complete document, but for one a call is still writing.
C10_NoArtifactAfterFailure ==
    /\ \A b \in Browsers :
          (IsConversion(b) /\ pc[b] = "idle" /\ response[b].code >= 400) =>
              req[b].output_filename \notin DOMAIN user_dir[req[b].user_id]
    /\ \A u \in Users : \A f \in DOMAIN user_dir[u] :
          \/ user_dir[u][f].complete
          \/ \E b \in Browsers : /\ pc[b] \in {"c_dump", "cc_dump"}
                                 /\ req[b].user_id = u
                                 /\ req[b].output_filename = f

\* C11 as stated: concurrent conversion calls are isolated.  While a
\* conversion call of browser b is in flight, no step of another call writes
\* the template b has looked up and is about to read, nor the file b has
\* opened under the name it returns; so the document and the artifact of b are
\* those b produces when it runs alone.
C11_ConcurrentCallsIsolated ==
    [][\A b \in Browsers :
          (IsConversion(b) /\ pc[b] # "idle" /\ pc'[b] = pc[b] /\ req'[b] = req[b]) =>
              /\ pc[b] = "cc_process" =>
                    CONVERSION_TEMPLATES'[req[b].template] =
                        CONVERSION_TEMPLATES[req[b].template]
              /\ req[b].output_filename # <<>> =>
                    user_dir'[req[b].user_id][req[b].output_filename] =
                        user_dir[req[b].user_id][req[b].output_filename]]_vars

\* the template custom_convert looks up for a requested name
LookedUp(template_name) ==
    IF template_name \in DOMAIN BuiltinTemplates THEN template_name ELSE "default"

\* C12: custom parameters given to custom_convert are written into the shared
\* template the requested name resolves to ('default' for an unknown name),
\* key by key, and nothing else ever changes or restores the registry; and a
\* custom_convert call extracts its rows and selects its builder from the
\* values the registry holds when it processes its file, so a later call that
\* names the template and gives no parameters works with the earlier call's
\* values.
C12_CustomParamsLeakIntoTemplate ==
    [][/\ \A b \in Browsers, body \in Bodies :
             custom_convert(b, body) =>
                 LET name == LookedUp(body.template)
                     given == DOMAIN body.custom_params
                 IN  /\ \A k \in given :
                            CONVERSION_TEMPLATES'[name][k] = body.custom_params[k]
                     /\ \A k \in DOMAIN CONVERSION_TEMPLATES[name] \ given :
                            CONVERSION_TEMPLATES'[name][k] = CONVERSION_TEMPLATES[name][k]
                     /\ \A t \in DOMAIN CONVERSION_TEMPLATES \ {name} :
                            CONVERSION_TEMPLATES'[t] = CONVERSION_TEMPLATES[t]
       /\ (\A b \in Browsers, body \in Bodies :
               ~(custom_convert(b, body) /\ body.custom_params # NoParams)) =>
              CONVERSION_TEMPLATES' = CONVERSION_TEMPLATES
       /\ \A b \in Browsers :
             (pc[b] = "cc_process" /\ pc'[b] = "cc_open") =>
                 LET template == CONVERSION_TEMPLATES[LookedUp(req[b].template_name)]
                     sh == req[b].upload.sheet
                     intra == read_excel_data(sh, template.intraday_start,
                                              template.intraday_end)
                     lt == read_excel_data(sh, template.longterm_start,
                                           template.longterm_end)
                 IN  /\ req'[b].intraday = intra
                     /\ req'[b].long_term = lt
                     /\ req'[b].output_data =
                           IF template.output_format = "compact"
                           THEN generate_compact_output(intra, lt)
                           ELSE generate_standard_output(intra, lt)]_vars

\* a custom_convert call that named 'default', gave no parameters and
\* succeeded, with the intraday row and the format of earlier calls'
\* parameters instead of the built-in row 42 and the standard format
C12_Witness ==
    \E b \in Browsers :
        /\ req[b].kind = "custom_convert" /\ req[b].template_name = "default"
        /\ pc[b] = "idle" /\ response[b].success
        /\ req[b].upload.sheet = FullSheet
        /\ req[b].intraday = read_excel_data(FullSheet, 1, 1)
        /\ req[b].intraday # read_excel_data(FullSheet, 42, 42)
        /\ "summary" \in DOMAIN req[b].output_data
        /\ BuiltinTemplates["default"].output_format = "standard"

\* C13: a requested range that lies wholly or partly beyond the sheet's last
\* row is read without error; the rows beyond the last row add no record, so
\* the records are those of the part of the range inside the sheet, a range
\* wholly beyond the sheet gives no record and hence empty sections in the
\* standard document; and the structural precheck depends on the sheet's row
\* count alone, whatever the range.
C13_RowsBeyondSheetAreSkipped ==
    Returned =>
        LET last == IF end_row > max_row(sheet) THEN max_row(sheet) ELSE end_row
        IN  /\ data = read_excel_data(sheet, start_row, last)
            /\ Len(data) <= Cardinality({r \in start_row..end_row : r <= max_row(sheet)})
            /\ start_row > max_row(sheet) =>
                  /\ data = <<>>
                  /\ generate_standard_output(data, data).capitalGain = <<>>
                  /\ generate_standard_output(data, data).profitLossACIncomes = <<>>
            /\ validate_excel_structure(sheet) <=> max_row(sheet) >= 2

\* a non-empty range wholly beyond a sheet whose last row carries a symbol
C13_Witness ==
    /\ Returned
    /\ max_row(sheet) >= 2
    /\ validate_excel_structure(sheet)
    /\ start_row > max_row(sheet) /\ end_row >= start_row
    /\ PyTruthy(cell(sheet, max_row(sheet), 1))
    /\ data = <<>>

\* C14 as stated: a custom_convert request that is answered with an error (no
\* file uploaded, no file selected, invalid file type, or a failure while
\* processing) leaves CONVERSION_TEMPLATES as it was: the step in which the
\* request is rejected at its file checks, which is its only step, and the
\* step in which its processing fails, do not change the registry.
C14_RejectedCustomLeavesTemplates ==
    [][\A b \in Browsers :
          (/\ req'[b].kind = "custom_convert"
           /\ pc'[b] = "idle" /\ response'[b].code >= 400
           /\ \/ pc[b] = "cc_process"
              \/ pc[b] = "la_append" /\ req[b].kind = "custom_convert"
              \/ \E body \in Bodies : custom_convert(b, body)) =>
              CONVERSION_TEMPLATES' = CONVERSION_TEMPLATES]_vars

\* C15 as stated: a conversion request that has recorded 'uploading' or
\* 'processing' for its user records 'completed' or 'error' before it
\* returns.  Hence, whenever no conversion request of a user is in flight, the
\* latest status recorded for that user, if any, is a terminal one.
C15_TerminalStatusBeforeReturn ==
    \A u \in Users :
        (/\ \A b \in Browsers : ~(IsConversion(b) /\ req[b].user_id = u /\ pc[b] # "idle")
         /\ STATUS_UPDATES[u] # <<>>) =>
            STATUS_UPDATES[u][Len(STATUS_UPDATES[u])] \in {"completed", "error"}

\* C17 as stated: whenever a browser session of a user is logged in,
\* USER_SESSIONS holds that user's record with the login_time and the status
\* 'active' set at a login (and with it the activities logged since).
C17_LoggedInUserHasSessionRecord ==
    \A b \in Browsers :
        session[b] # "" =>
            /\ USER_SESSIONS[session[b]].exists
            /\ USER_SESSIONS[session[b]].login_time >= 0
            /\ USER_SESSIONS[session[b]].status = "active"

\* the last n entries of xs, in the order of xs
LastEntries(xs, n) ==
    LET k == IF Len(xs) > n THEN n ELSE Len(xs)
    IN  [i \in 1..k |-> xs[Len(xs) - k + i]]

\* C16: between calls, a user's activity list holds at most 100 entries and a
\* user's status-update list at most 20, and each list holds the entries most
\* recently appended to it, in the order they were appended.
C16_ListsKeepLastN ==
    \A u \in Users :
        /\ Len(STATUS_UPDATES[u]) <= MaxStatusUpdates
        /\ STATUS_UPDATES[u] = LastEntries(appended[u].statuses, MaxStatusUpdates)
        /\ (\A b \in Browsers : pc[b] = "idle") =>
              /\ Len(USER_SESSIONS[u].activities) <= MaxActivities
              /\ USER_SESSIONS[u].activities =
                     LastEntries(appended[u].activities, MaxActivities)

\* both lists of a user have overflowed and been trimmed
C16_Witness ==
    \E u \in Users :
        /\ \A b \in Browsers : pc[b] = "idle"
        /\ Len(appended[u].activities) > MaxActivities
        /\ Len(USER_SESSIONS[u].activities) = MaxActivities
        /\ USER_SESSIONS[u].activities[1] = 2
        /\ Len(appended[u].statuses) > MaxStatusUpdates
        /\ Len(STATUS_UPDATES[u]) = MaxStatusUpdates
        /\ STATUS_UPDATES[u][MaxStatusUpdates] = Len(appended[u].statuses)

====
